---- MODULE Spec2Model ----
(***************************************************************************)
(* Verification model of market-daily-snapshot:                            *)
(*   src/daily_market_prices.py  (index snapshot, movers, markdown)        *)
(*   src/news_crawler.py         (news formatters, main_async)             *)
(*                                                                         *)
(* Encoding of Python values                                               *)
(*   None (as a result tuple)  -> the empty tuple <<>>                     *)
(*   (date, close, prev)       -> <<d, close, prev>>                       *)
(*   dates                     -> day numbers 1..MaxDate; NoDate (0) is    *)
(*                                None / NaT, BadDate an unparsable string *)
(*   prices                    -> integers (hundredths); NaN is a missing  *)
(*                                / unparsable CSV cell                    *)
(*   percentages               -> integers (basis points)                  *)
(*   dict                      -> function whose DOMAIN is the key set     *)
(*   Korean literals           -> ASCII tags, quoted in the comments       *)
(***************************************************************************)
EXTENDS Integers, Sequences, FiniteSets, TLC

VARIABLES
    pc,            \* position of the running script
    ixIn,          \* arguments and environment of one _last_two_closes_index call
    ixOut,         \* its return value and the sources it consulted
    args,          \* parsed CLI arguments of the price report
    disk,          \* the cache file CACHE_PATH
    disk0,         \* the cache file as it was when main started (history)
    cache,         \* main: in-memory cache dict
    idx,           \* main: number of indices already processed
    rows,          \* main: rows of the region being built
    sections,      \* main: finished sections
    failures,      \* main: failed tickers
    indices_data,  \* main: per-index data for the markdown
    report_date,   \* main: date of the first resolved index
    srcLog,        \* history: per processed index, what each source answered
    env,           \* what the outside world answers in this run
    universe,      \* main: rows <<ticker, name>> of uni_us
    oddLeft,       \* how many tickers may still get a quote other than env.default
    mi,            \* movers: loop index i
    gainers,       \* movers: gainers list
    losers,        \* movers: losers list
    clock,         \* movers: wall clock, seconds
    reqLog,        \* history: every quote request, its time and its answer
    sleepLog,      \* history: clock at which each sleep started
    movers_blocks, \* main: text blocks of the movers
    mdDoc,         \* markdown file written by the price report
    out,           \* the text report printed by main
    exitCode,      \* value returned by main / main_async
    page,          \* news: what the newsroom page answers in this run
    news_cards,    \* news: the cards the selectors matched
    ci,            \* news: number of cards already examined
    cardLog,       \* history: per examined card, the card and what became of it
    news_items,    \* news: items collected by the crawl
    newsArgs,      \* news: parsed CLI arguments
    newsJson,      \* news: JSON file written by main_async
    newsMd,        \* news: markdown file written by main_async
    newsReport,    \* news: report printed by main_async
    fmtIn,         \* formatters: the data both calls are given
    fmtA,          \* formatters: what the first call returned
    fmtB           \* formatters: what the second call returned

indexVars == <<ixIn, ixOut>>
mainVars == <<args, disk, disk0, cache, idx, rows, sections, failures,
              indices_data, report_date, srcLog, movers_blocks, out>>
moverVars == <<env, universe, oddLeft, mi, gainers, losers,
               clock, reqLog, sleepLog>>
crawlVars == <<page, news_cards, ci, cardLog>>
newsVars == <<crawlVars, news_items, newsArgs, newsJson, newsMd, newsReport>>
fmtVars == <<fmtIn, fmtA, fmtB>>
vars == <<pc, indexVars, mainVars, moverVars, newsVars, fmtVars, mdDoc, exitCode>>

(***************************************************************************)
(* Bounds of the model                                                     *)
(***************************************************************************)
MaxDate == 3
MaxRows == 3
MaxMainUniverse == 1
MaxUniverse == 11
MaxRateUniverse == 26
MaxOdd == 1
MaxLatency == 1
MaxNews == 3
MaxCards == 3

None == <<>>
NoDate == 0
BadDate == 0 - 1
NaN == 0 - 1
Garbled == 0 - 2

Dates == 1..MaxDate

(***************************************************************************)
(* Index definitions of main, flattened in iteration order                 *)
(* (region_map order, dict insertion order inside a region).               *)
(* stooq = "" stands for None: both are falsy in `if stooq_symbol:`.       *)
(***************************************************************************)
IndexDefs ==
    << [region |-> "US", name |-> "S&P 500",    ticker |-> "^GSPC",     stooq |-> "^spx"],
       [region |-> "US", name |-> "NASDAQ 100", ticker |-> "^NDX",      stooq |-> "^ndx"],
       [region |-> "CN", name |-> "SSE",        ticker |-> "000001.SS", stooq |-> "000001.ss"],
       [region |-> "CN", name |-> "CSI 300",    ticker |-> "000300.SS", stooq |-> ""],
       [region |-> "HK", name |-> "Hang Seng",  ticker |-> "^HSI",      stooq |-> "^hsi"] >>

NumIndices == Len(IndexDefs)
IndexTickers == {IndexDefs[i].ticker : i \in 1..NumIndices}
Regions == <<"US", "CN", "HK">>

(***************************************************************************)
(* The cache file                                                          *)
(***************************************************************************)
EmptyDict == [t \in {} |-> None]

\* A file is missing, unparsable, or holds a JSON object ticker -> entry.
DiskFile(kind, data) == [kind |-> kind, data |-> data]

LoadCache(file) ==
    IF file.kind = "missing" THEN EmptyDict
    ELSE IF file.kind = "corrupt" THEN EmptyDict
    ELSE file.data

SaveCache(c) == DiskFile("ok", c)

(***************************************************************************)
(* _stooq_last_two_closes                                                  *)
(* A response is [kind, hasClose, rows]:                                   *)
(*   kind "neterr"    requests.get raised                                  *)
(*        "empty"     empty body                                           *)
(*        "ratelimit" body starts with "Exceeded the daily hits limit"     *)
(*        "nothdr"    body does not start with "Date,"                     *)
(*        "csv"       a CSV whose header starts with "Date,"; hasClose     *)
(*                    says whether it has a Close column; rows are         *)
(*                    <<date, close>> cells, NoDate / NaN where the cell   *)
(*                    is missing or (for the date) unparsable; a Garbled   *)
(*                    close is text that float() rejects: dropna keeps it, *)
(*                    float() raises on it and line 92 turns that to None  *)
(* sort_values is modelled on rows whose valid dates are distinct, as in   *)
(* a daily series, so the order of equal keys never matters.               *)
(***************************************************************************)
Response(kind, hasClose, rs) == [kind |-> kind, hasClose |-> hasClose, rows |-> rs]

DropNa(rs) == SelectSeq(rs, LAMBDA r : r[1] # NoDate /\ r[2] # NaN)

RECURSIVE InsertByDate(_, _)
InsertByDate(r, s) ==
    IF s = <<>> THEN <<r>>
    ELSE IF r[1] < Head(s)[1] THEN <<r>> \o s
    ELSE <<Head(s)>> \o InsertByDate(r, Tail(s))

RECURSIVE SortByDate(_)
SortByDate(rs) ==
    IF rs = <<>> THEN <<>>
    ELSE InsertByDate(rs[Len(rs)], SortByDate(SubSeq(rs, 1, Len(rs) - 1)))

OnOrBefore(rs, cutoff) == SelectSeq(rs, LAMBDA r : r[1] <= cutoff)

LastTwo(df) ==
    LET last == df[Len(df)]
        prev == df[Len(df) - 1]
    IN  IF last[2] = Garbled \/ prev[2] = Garbled THEN None
        ELSE <<last[1], last[2], prev[2]>>

\* A fetch that ignores the --date cutoff.
StooqCutoffMutant(resp, as_of) ==
    IF resp.kind # "csv" \/ ~resp.hasClose THEN None
    ELSE LET df == SortByDate(DropNa(resp.rows))
         IN  IF Len(df) < 2 THEN None ELSE LastTwo(df)

StooqLastTwoCloses(resp, as_of) ==
    IF resp.kind = "neterr" THEN None
    ELSE IF resp.kind = "empty" \/ resp.kind = "ratelimit" THEN None
    ELSE IF resp.kind = "nothdr" THEN None
    ELSE IF ~resp.hasClose THEN None
    ELSE LET df == SortByDate(DropNa(resp.rows))
         IN  IF Len(df) < 2 THEN None
             ELSE IF as_of # NoDate
                  THEN LET cut == OnOrBefore(df, as_of)
                       IN  IF Len(cut) < 2 THEN None ELSE LastTwo(cut)
                  ELSE LastTwo(df)

(***************************************************************************)
(* _last_two_closes_index                                                  *)
(* Returns [r, tried]: r is the function's return value and tried the      *)
(* sequence of sources it consulted, in the order it consulted them.       *)
(***************************************************************************)
EntryFields == {"date", "close", "prev"}

\* d.strftime("%Y-%m-%d") and date.isoformat(), for the days of the model
\* (day 0 is the day before day 1).
Strftime(d) == IF d = 0 THEN "2026-01-31" ELSE "2026-02-0" \o ToString(d)

BadDateText == "not-a-date"

\* pd.to_datetime / datetime.fromisoformat of a date text; BadDate when
\* the text does not parse (the call raises).
ToDatetime(s) ==
    IF \E d \in Dates : Strftime(d) = s
    THEN CHOOSE d \in Dates : Strftime(d) = s
    ELSE BadDate

\* Lines 166-170: any exception while reading the entry gives None.
\* A close or prev of NaN stands for a value float() rejects.
CacheEntryResult(e) ==
    IF ~(EntryFields \subseteq DOMAIN e) THEN None
    ELSE IF ToDatetime(e.date) = BadDate THEN None
    ELSE IF e.close = NaN \/ e.prev = NaN THEN None
    ELSE <<ToDatetime(e.date), e.close, e.prev>>

CacheLookup(file, ticker) ==
    LET c == LoadCache(file)
    IN  IF ticker \in DOMAIN c THEN CacheEntryResult(c[ticker]) ELSE None

\* A chain that asks the cache before the live feed.
LastTwoCacheFirstMutant(ticker, stooq_symbol, as_of, resp, file) ==
    LET c == CacheLookup(file, ticker)
    IN  IF c # None THEN [r |-> c, tried |-> <<"cache">>]
        ELSE IF stooq_symbol # ""
             THEN [r |-> StooqLastTwoCloses(resp, as_of), tried |-> <<"cache", "stooq">>]
             ELSE [r |-> None, tried |-> <<"cache">>]

LastTwoClosesIndex(ticker, stooq_symbol, as_of, resp, file) ==
    LET live == IF stooq_symbol # "" THEN StooqLastTwoCloses(resp, as_of) ELSE None
        t1 == IF stooq_symbol # "" THEN <<"stooq">> ELSE <<>>
    IN  IF live # None
        THEN [r |-> live, tried |-> t1]
        ELSE [r |-> CacheLookup(file, ticker), tried |-> t1 \o <<"cache">>]

(***************************************************************************)
(* Text.  A line is a tuple of string pieces (the pieces concatenated are  *)
(* the line), a block a sequence of lines.  Number formats, for integers   *)
(* in hundredths below 1000.00 (no thousands separator is ever needed):    *)
(*   Fnum  "{x:,.2f}"    Fsigned  "{x:+,.2f}"    Fpct  "{x:+.2f}%"         *)
(***************************************************************************)
Min(a, b) == IF a < b THEN a ELSE b
Take(s, n) == SubSeq(s, 1, Min(n, Len(s)))

Digits2(n) == IF n < 10 THEN "0" \o ToString(n) ELSE ToString(n)
Fabs(x) == ToString(x \div 100) \o "." \o Digits2(x % 100)
Fnum(x) == IF x < 0 THEN "-" \o Fabs(0 - x) ELSE Fabs(x)
Fsigned(x) == IF x < 0 THEN "-" \o Fabs(0 - x) ELSE "+" \o Fabs(x)
Fpct(x) == Fsigned(x) \o "%"

RECURSIVE JoinComma(_)
JoinComma(ss) ==
    IF ss = <<>> THEN ""
    ELSE IF Len(ss) = 1 THEN ss[1]
    ELSE ss[1] \o ", " \o JoinComma(Tail(ss))

\* The placeholder text of a value that could not be fetched.
FailText == "FAIL"

\* _fmt_row; an absent number (None) is <<>>, a number x is <<x>>.
\* The column padding is left out.
FmtRow(name, close, chg, pct) ==
    << name, " | ", IF close = <<>> THEN FailText ELSE Fnum(close[1]),
             " | ", IF chg = <<>> THEN FailText ELSE Fsigned(chg[1]),
             " | ", IF pct = <<>> THEN FailText ELSE Fpct(pct[1]) >>

SectionHeader == <<"index | close | change | change%">>
\* The code fence line (three backquotes).
Fence == <<"[fence]">>

Section(title, rs) ==
    <<(<<title>>), Fence, SectionHeader, (<<"-----">>)>> \o rs \o <<Fence>>

NameWidth == 30

\* Lines 196-198; the names of the model have no line breaks and no
\* blanks around them.
ShortName(n) == IF Len(n) > NameWidth THEN SubSeq(n, 1, NameWidth - 3) \o "..." ELSE n

MoverLine(m) == <<m[1], " | ", ShortName(m[2]), " | ", Fpct(m[3])>>

MoverLines(ms) == [k \in 1..Len(ms) |-> MoverLine(ms[k])]

\* _movers_table; movers are <<ticker, name, pct>>.
MoversTable(title, movers, limit) ==
    IF movers = <<>>
    THEN <<(<<title>>), (<<"- (no data)">>)>>
    ELSE <<(<<title>>), Fence, (<<"ticker | name | move%">>), (<<"-----">>)>>
         \o MoverLines(Take(movers, limit)) \o <<Fence>>

\* sorted(..., key=pct): a stable sort.  With reverse=True Python keeps
\* the original order of equal keys too.
RECURSIVE InsertAsc(_, _)
InsertAsc(m, s) ==
    IF s = <<>> THEN <<m>>
    ELSE IF m[3] < Head(s)[3] THEN <<m>> \o s
    ELSE <<Head(s)>> \o InsertAsc(m, Tail(s))

RECURSIVE InsertDesc(_, _)
InsertDesc(m, s) ==
    IF s = <<>> THEN <<m>>
    ELSE IF m[3] > Head(s)[3] THEN <<m>> \o s
    ELSE <<Head(s)>> \o InsertDesc(m, Tail(s))

RECURSIVE SortedAsc(_)
SortedAsc(ms) ==
    IF ms = <<>> THEN <<>>
    ELSE InsertAsc(ms[Len(ms)], SortedAsc(SubSeq(ms, 1, Len(ms) - 1)))

RECURSIVE SortedDesc(_)
SortedDesc(ms) ==
    IF ms = <<>> THEN <<>>
    ELSE InsertDesc(ms[Len(ms)], SortedDesc(SubSeq(ms, 1, Len(ms) - 1)))

TopN == 10

UpTitle(market) == "UP " \o market \o " Top 10"
DownTitle(market) == "DOWN " \o market \o " Top 10"

\* _format_gainers_losers: the two tables, joined by an empty line.
FormatGainersLosers(gs, ls, market) ==
    MoversTable(UpTitle(market), Take(SortedDesc(gs), TopN), TopN)
    \o <<(<<"">>)>>
    \o MoversTable(DownTitle(market), Take(SortedAsc(ls), TopN), TopN)

(***************************************************************************)
(* Texts of the movers universe                                            *)
(***************************************************************************)
RECURSIVE ReplaceAll(_, _, _)
\* str.replace(pat, rep)
ReplaceAll(s, pat, rep) ==
    IF Len(s) < Len(pat) THEN s
    ELSE IF SubSeq(s, 1, Len(pat)) = pat
         THEN rep \o ReplaceAll(SubSeq(s, Len(pat) + 1, Len(s)), pat, rep)
         ELSE SubSeq(s, 1, 1) \o ReplaceAll(SubSeq(s, 2, Len(s)), pat, rep)

\* ticker.replace("-", ".")
AvSymbol(t) == ReplaceAll(t, "-", ".")
\* ticker.replace("-", "")
TickerClean(t) == ReplaceAll(t, "-", "")

\* The rows <<ticker, name>> of a universe of n tickers: distinct tickers
\* (drop_duplicates), one of them with a '-', one with a long name.
UniverseTicker(k) == IF k = 2 THEN "BRK-B" ELSE "T" \o ToString(k)
UniverseName(k) ==
    IF k = 1 THEN "A company with quite a long name" ELSE "Name" \o ToString(k)
UniverseRows(n) == [k \in 1..n |-> <<UniverseTicker(k), UniverseName(k)>>]

(***************************************************************************)
(* _format_markdown                                                        *)
(* report_date is a text ("" when falsy), indices the indices_data dict,   *)
(* now the day dt.date.today() answers.                                    *)
(***************************************************************************)
MdIndexRow(e) ==
    IF e.close # <<>> /\ e.close[1] # 0
    THEN <<"| [[", e.name, "]] | ", Fnum(e.close[1]), " | ", Fsigned(e.change[1]),
           " | ", Fpct(e.pct[1]), " |">>
    ELSE <<"| [[", e.name, "]] | - | - | - |">>

MdMoverLine(m) == <<"- [[", TickerClean(m[1]), "]] **", Fpct(m[3]), "** - ", m[2]>>

MdIndexTable(title, entries) ==
    <<(<<title>>), (<<"">>), (<<"| Index | Close | Change | % |">>),
      (<<"|-------|------:|-------:|--:|">>)>>
    \o [k \in 1..Len(entries) |-> MdIndexRow(entries[k])] \o <<(<<"">>)>>

MdMovers(title, movers) ==
    IF movers = <<>> THEN <<>>
    ELSE <<(<<title>>), (<<"">>)>> \o [k \in 1..Min(TopN, Len(movers)) |-> MdMoverLine(movers[k])] \o <<(<<"">>)>>

MdGainersTitle == "## Top Gainers"
MdLosersTitle == "## Top Losers"

FormatMarkdown(report_date_text, indices, gs, ls, now) ==
    LET today == IF report_date_text # "" THEN report_date_text
                 ELSE IF indices.as_of # NoDate THEN Strftime(indices.as_of)
                 ELSE Strftime(now)
        yesterday == Strftime(ToDatetime(today) - 1)
    IN  <<(<<"---">>), (<<"date: ", today>>), (<<"type: market-snapshot">>),
          (<<"tags: [market, daily, indices]">>), (<<"---">>), (<<"">>),
          (<<"# Daily Market Snapshot - ", today>>), (<<"">>)>>
        \o MdIndexTable("## US Indices", indices.US)
        \o MdIndexTable("## Hong Kong", indices.HK)
        \o MdMovers(MdGainersTitle, gs)
        \o MdMovers(MdLosersTitle, ls)
        \o <<(<<"---">>), (<<"">>), (<<"## Related">>), (<<"">>),
             (<<"- [[Daily Market Snapshot - ", yesterday, "|yesterday]]">>),
             (<<"- [[Global News - ", today, "|news]]">>)>>

(***************************************************************************)
(* _alphavantage_quote                                                     *)
(* A response is [kind, price, change, pct]:                               *)
(*   "neterr"  requests.get or resp.json() raised                          *)
(*   "note"    a JSON object without "Global Quote" (the rate-limit note)  *)
(*   "empty"   "Global Quote" is an empty object                           *)
(*   "quote"   a quote; a missing field reads as 0                         *)
(***************************************************************************)
QuoteResponse(kind, price, change, pct) ==
    [kind |-> kind, price |-> price, change |-> change, pct |-> pct]

AlphavantageQuote(q) ==
    IF q.kind = "neterr" THEN None
    ELSE IF q.kind = "note" \/ q.kind = "empty" THEN None
    ELSE IF q.price <= 0 THEN None
    ELSE <<q.price, q.change, q.pct>>

NoEnv ==
    [stooq |-> {}, uniKind |-> "csv", uniSize |-> 0, hkOk |-> TRUE,
     pool |-> {}, default |-> QuoteResponse("neterr", 0, 0, 0), latency |-> 0, today |-> 1]

(***************************************************************************)
(* Values of the variables a script has not touched                        *)
(***************************************************************************)
NoExit == 0 - 1
NoArgs == [date |-> NoDate, skip_movers |-> FALSE, markdown |-> FALSE]
NoFile == DiskFile("missing", EmptyDict)
NoIndexCall == [i |-> 0, resp |-> Response("neterr", FALSE, <<>>), as_of |-> NoDate, file |-> NoFile]
NoIndexResult == [r |-> None, tried |-> <<>>]
EmptyIndices(as_of) == [US |-> <<>>, CN |-> <<>>, HK |-> <<>>, as_of |-> as_of]

IndexIdle == ixIn = NoIndexCall /\ ixOut = NoIndexResult

MainIdle ==
    /\ args = NoArgs /\ disk = NoFile /\ disk0 = NoFile /\ cache = EmptyDict
    /\ idx = 0 /\ rows = <<>> /\ sections = <<>> /\ failures = <<>>
    /\ indices_data = EmptyIndices(NoDate) /\ report_date = NoDate
    /\ srcLog = <<>> /\ movers_blocks = <<>> /\ out = <<>>

MoversIdle ==
    /\ env = NoEnv /\ universe = <<>> /\ oddLeft = 0 /\ mi = 0
    /\ gainers = <<>> /\ losers = <<>> /\ clock = 0 /\ reqLog = <<>> /\ sleepLog = <<>>

DefaultLimit == 10
NoPage == [loaded |-> FALSE, cards |-> <<>>]

NewsIdle ==
    /\ page = NoPage /\ news_cards = <<>> /\ ci = 0 /\ cardLog = <<>>
    /\ news_items = <<>>
    /\ newsArgs = [limit |-> DefaultLimit, output |-> FALSE, markdown |-> FALSE,
                   telegram |-> FALSE]
    /\ newsJson = <<>> /\ newsMd = <<>> /\ newsReport = <<>>

NoFormat == <<>>
FmtIdle == fmtIn = NoFormat /\ fmtA = NoFormat /\ fmtB = NoFormat

(***************************************************************************)
(* Inputs of the model                                                     *)
(***************************************************************************)
CloseSamples == {1, 2}
Cells == ({NoDate} \cup Dates) \X ({NaN, Garbled} \cup CloseSamples)

DistinctDates(rs) ==
    \A i, j \in 1..Len(rs) : (i # j /\ rs[i][1] # NoDate) => rs[i][1] # rs[j][1]

RowSeqs == {rs \in UNION {[1..n -> Cells] : n \in 0..MaxRows} : DistinctDates(rs)}

\* Responses Stooq can give: every non-CSV kind, a CSV without a Close
\* column, a CSV whose last close is not a number, and every CSV of up to
\* MaxRows rows.
StooqResponses ==
    {Response(k, FALSE, <<>>) : k \in {"neterr", "empty", "ratelimit", "nothdr"}}
    \cup {Response("csv", FALSE, <<<<1, 1>>, <<2, 2>>>>)}
    \cup {Response("csv", TRUE, <<<<1, 1>>, <<2, 2>>, <<3, Garbled>>>>)}
    \cup {Response("csv", TRUE, rs) : rs \in RowSeqs}

Entry(d, c, p) == [date |-> d, close |-> c, prev |-> p]

\* Cache files a call can find for `ticker`: none, unparsable, without the
\* ticker, with a valid entry (stale date included), with entries the
\* read of lines 167-168 raises on.
CacheFilesFor(ticker) ==
    {DiskFile("missing", EmptyDict), DiskFile("corrupt", EmptyDict)}
    \cup {DiskFile("ok", [t \in {"AAPL"} |-> Entry(Strftime(1), 2, 1)])}
    \cup {DiskFile("ok", [t \in {ticker} |-> e]) :
            e \in {Entry(Strftime(3), 2, 1), Entry(BadDateText, 2, 1),
                   [date |-> Strftime(1), close |-> 2]}}

(***************************************************************************)
(* SpecIndex: one call of _last_two_closes_index on any index, response,   *)
(* cutoff and cache file.                                                  *)
(***************************************************************************)
InitIndex ==
    /\ pc = "ix_call"
    /\ \E i \in 1..NumIndices, resp \in StooqResponses, a \in {NoDate, 2} :
          \E f \in CacheFilesFor(IndexDefs[i].ticker) :
             ixIn = [i |-> i, resp |-> resp, as_of |-> a, file |-> f]
    /\ ixOut = NoIndexResult
    /\ MainIdle /\ MoversIdle /\ NewsIdle /\ FmtIdle
    /\ mdDoc = <<>> /\ exitCode = NoExit

IxCall ==
    /\ pc = "ix_call"
    /\ ixOut' = LastTwoClosesIndex(IndexDefs[ixIn.i].ticker, IndexDefs[ixIn.i].stooq,
                                   ixIn.as_of, ixIn.resp, ixIn.file)
    /\ pc' = "ix_done"
    /\ UNCHANGED <<ixIn, mainVars, moverVars, newsVars, fmtVars, mdDoc, exitCode>>

NextIndex == IxCall

SpecIndex == InitIndex /\ [][NextIndex]_vars

(***************************************************************************)
(* Claims about _last_two_closes_index (SpecIndex)                         *)
(***************************************************************************)
IxTicker == IndexDefs[ixIn.i].ticker
IxSymbol == IndexDefs[ixIn.i].stooq
IxLive == StooqLastTwoCloses(ixIn.resp, ixIn.as_of)
IxCached == CacheLookup(ixIn.file, IxTicker)
IsIn(x, s) == \E k \in 1..Len(s) : s[k] = x

\* C1: the sources are consulted in the order Stooq, cache; the call
\* returns the answer of the first one that yields a triple; the cache is
\* read exactly when there is no Stooq symbol or Stooq answered None, so a
\* cached entry never replaces a live result.
C1_SourceOrder ==
    pc = "ix_done" =>
        /\ ixOut.tried \in {<<"stooq">>, <<"stooq", "cache">>, <<"cache">>}
        /\ IsIn("stooq", ixOut.tried) <=> IxSymbol # ""
        /\ IsIn("cache", ixOut.tried) <=> (IxSymbol = "" \/ IxLive = None)
        /\ (IxSymbol # "" /\ IxLive # None) => ixOut.r = IxLive
        /\ (IxSymbol = "" \/ IxLive = None) => ixOut.r = IxCached

\* A live result was returned although the cache held another valid entry.
C1_Witness ==
    /\ pc = "ix_done" /\ IxSymbol # ""
    /\ IxLive # None /\ IxCached # None /\ IxCached # IxLive
    /\ ixOut.r = IxLive /\ ixOut.tried = <<"stooq">>

\* Rows with a valid Date and a numeric Close, on or before the cutoff if
\* one is given.
UsableRows(rs, as_of) ==
    {k \in 1..Len(rs) :
        /\ rs[k][1] # NoDate /\ rs[k][2] # NaN /\ rs[k][2] # Garbled
        /\ (as_of # NoDate => rs[k][1] <= as_of)}

IxFewRows ==
    /\ IxSymbol # "" /\ ixIn.resp.kind = "csv" /\ ixIn.resp.hasClose
    /\ Cardinality(UsableRows(ixIn.resp.rows, ixIn.as_of)) < 2

\* C4: a live response with fewer than two usable rows makes the live
\* fetch answer None, and the call goes on to the cache and returns what
\* the cache holds for the ticker.
C4_FewRowsFallThrough ==
    (pc = "ix_done" /\ IxFewRows) =>
        /\ IxLive = None
        /\ ixOut.tried = <<"stooq", "cache">>
        /\ ixOut.r = IxCached

\* Two valid rows exist, but only one on or before the cutoff, and the
\* cache served the index.
C4_Witness ==
    /\ pc = "ix_done" /\ IxFewRows /\ ixIn.as_of # NoDate
    /\ Cardinality(UsableRows(ixIn.resp.rows, NoDate)) >= 2
    /\ ixOut.r # None /\ ixOut.r = IxCached

(***************************************************************************)
(* main of daily_market_prices.py                                          *)
(***************************************************************************)
RegionTitle(region) ==
    IF region = "US" THEN "US (previous close)"
    ELSE IF region = "CN" THEN "CN (last trading day)"
    ELSE "HK (last trading day)"

LastOfRegion(k) == k = NumIndices \/ IndexDefs[k + 1].region # IndexDefs[k].region

WikiHead == 110
QuoteLimit == 25
SleepSeconds == 13

\* (close / prev - 1.0) * 100.0 in basis points, for prev # 0.
Pct(close, prev) == (close * 10000) \div prev - 10000

IndexEntry(name, close, chg, pct) ==
    [name |-> name, close |-> close, change |-> chg, pct |-> pct]

AddIndex(data, region, e) ==
    IF region = "US" THEN [data EXCEPT !.US = Append(@, e)]
    ELSE IF region = "CN" THEN [data EXCEPT !.CN = Append(@, e)]
    ELSE [data EXCEPT !.HK = Append(@, e)]

\* A store that keeps the new entry and forgets the others.
PutEntryForgetMutant(c, ticker, e) == [t \in {ticker} |-> e]

\* cache[ticker] = {"date": ..., "close": ..., "prev": ...}
PutEntry(c, ticker, e) == [t \in DOMAIN c \cup {ticker} |-> IF t = ticker THEN e ELSE c[t]]

\* Lines 413-447: arguments, the three universes, the empty collections,
\* the cache.  _wiki_table_first lets the exceptions of requests.get,
\* pd.read_html and its own RuntimeError through (lines 436 and 438).
MainStart ==
    /\ pc = "main_start"
    /\ IF env.uniKind = "fail" \/ ~env.hkOk
       THEN /\ pc' = "raised"
            /\ UNCHANGED <<universe, cache, indices_data>>
       ELSE /\ pc' = "index_loop"
            /\ universe' = IF env.uniKind = "wiki"
                           THEN Take(UniverseRows(env.uniSize), WikiHead)
                           ELSE UniverseRows(env.uniSize)
            /\ cache' = LoadCache(disk)
            /\ indices_data' = EmptyIndices(args.date)
    /\ UNCHANGED <<args, disk, disk0, idx, rows, sections, failures, report_date,
                   srcLog, movers_blocks, out>>
    /\ UNCHANGED <<env, oddLeft, mi, gainers, losers, clock, reqLog, sleepLog>>
    /\ UNCHANGED <<indexVars, newsVars, fmtVars, mdDoc, exitCode>>

FailureRow(name) == FmtRow(name, <<>>, <<>>, <<>>)

\* A main that forgets the failed ticker.
AddFailureDropMutant(fs, ticker) == fs

\* The failure list after an index that no source resolved.
AddFailure(fs, ticker) == Append(fs, ticker)

\* Lines 457-479: one index.  The sources see the cache file, not the
\* in-memory dict.  close / prev raises ZeroDivisionError when prev is 0.
IndexStep ==
    /\ pc = "index_loop"
    /\ \E resp \in env.stooq :
        LET k == idx + 1
            def == IndexDefs[k]
            res == LastTwoClosesIndex(def.ticker, def.stooq, args.date, resp, disk)
            r == res.r
            entry == [ticker |-> def.ticker, symbol |-> def.stooq,
                      live |-> StooqLastTwoCloses(resp, args.date),
                      cached |-> CacheLookup(disk, def.ticker),
                      r |-> r, tried |-> res.tried]
        IN  IF r = None
            THEN LET rows1 == Append(rows, FailureRow(def.name))
                 IN  /\ failures' = AddFailure(failures, def.ticker)
                     /\ indices_data' = AddIndex(indices_data, def.region,
                                                 IndexEntry(def.name, <<>>, <<>>, <<>>))
                     /\ rows' = IF LastOfRegion(k) THEN <<>> ELSE rows1
                     /\ sections' = IF LastOfRegion(k)
                                    THEN Append(sections, Section(RegionTitle(def.region), rows1))
                                    ELSE sections
                     /\ idx' = k
                     /\ srcLog' = Append(srcLog, entry)
                     /\ pc' = IF k = NumIndices THEN "movers" ELSE "index_loop"
                     /\ UNCHANGED <<cache, report_date>>
            ELSE IF r[3] = 0
            THEN /\ pc' = "raised"
                 /\ srcLog' = Append(srcLog, entry)
                 /\ UNCHANGED <<failures, indices_data, rows, sections, idx, cache, report_date>>
            ELSE LET close == r[2]
                     prev == r[3]
                     chg == close - prev
                     pct == Pct(close, prev)
                     rows1 == Append(rows, FmtRow(def.name, <<close>>, <<chg>>, <<pct>>))
                 IN  /\ cache' = PutEntry(cache, def.ticker,
                                          Entry(Strftime(r[1]), close, prev))
                     /\ indices_data' = AddIndex(indices_data, def.region,
                                                 IndexEntry(def.name, <<close>>, <<chg>>, <<pct>>))
                     /\ report_date' = IF report_date = NoDate THEN r[1] ELSE report_date
                     /\ rows' = IF LastOfRegion(k) THEN <<>> ELSE rows1
                     /\ sections' = IF LastOfRegion(k)
                                    THEN Append(sections, Section(RegionTitle(def.region), rows1))
                                    ELSE sections
                     /\ idx' = k
                     /\ srcLog' = Append(srcLog, entry)
                     /\ pc' = IF k = NumIndices THEN "movers" ELSE "index_loop"
                     /\ UNCHANGED failures
    /\ UNCHANGED <<args, disk, disk0, movers_blocks, out>>
    /\ UNCHANGED <<moverVars, indexVars, newsVars, fmtVars, mdDoc, exitCode>>

SkippedBlock(market) == <<(<<market, " Top 10">>), (<<"- (skipped by --skip-movers)">>)>>
UnsupportedBlock(market) == <<(<<market, " Top 10">>), (<<"- (not supported by Alpha Vantage)">>)>>

\* Lines 481-491 and 385-389: the skip branch, or the set-up of
\* _get_movers_alphavantage(uni_us, "US").
MoversBegin ==
    /\ pc = "movers"
    /\ IF args.skip_movers
       THEN /\ movers_blocks' = <<SkippedBlock("US"), SkippedBlock("CN"), SkippedBlock("HK")>>
            /\ pc' = "save"
       ELSE /\ pc' = "movers_loop"
            /\ UNCHANGED movers_blocks
    /\ gainers' = <<>> /\ losers' = <<>> /\ mi' = 0
    /\ UNCHANGED <<args, disk, disk0, cache, idx, rows, sections, failures,
                   indices_data, report_date, srcLog, out>>
    /\ UNCHANGED <<env, universe, oddLeft, clock, reqLog, sleepLog>>
    /\ UNCHANGED <<indexVars, newsVars, fmtVars, mdDoc, exitCode>>

\* tickers = df["ticker"].astype(str).tolist()[:25]
QuoteTickers == Take(universe, QuoteLimit)

\* A loop that files a quote of exactly 0 percent under the losers.
ClassifyZeroLoserMutant(gs, ls, row, quote) ==
    IF quote = None THEN [g |-> gs, l |-> ls]
    ELSE LET item == <<row[1], row[2], quote[3]>>
         IN  IF quote[3] > 0
             THEN [g |-> Append(gs, item), l |-> ls]
             ELSE [g |-> gs, l |-> Append(ls, item)]

\* Lines 396-402: the lists after the quote of one ticker.
Classify(gs, ls, row, quote) ==
    IF quote = None THEN [g |-> gs, l |-> ls]
    ELSE LET item == <<row[1], row[2], quote[3]>>
         IN  IF quote[3] >= 0
             THEN [g |-> Append(gs, item), l |-> ls]
             ELSE [g |-> gs, l |-> Append(ls, item)]

\* Line 406: is there a sleep after the request of index i (0-based)?
SleepsAfter(i, n) == i < n - 1

\* A delay one second short of the delay of the code.
SleepMutant == SleepSeconds - 1

\* Seconds slept between two requests (line 408).
SleepDelay == SleepSeconds

\* Lines 391-408: one iteration of the loop: the request, the
\* classification, the sleep.
MoverStep ==
    /\ pc = "movers_loop"
    /\ mi < Len(QuoteTickers)
    /\ \E q \in (IF oddLeft > 0 THEN env.pool ELSE {env.default}) :
        LET row == QuoteTickers[mi + 1]
            quote == AlphavantageQuote(q)
            lists == Classify(gainers, losers, row, quote)
            answered == clock + env.latency
        IN  /\ oddLeft' = IF q = env.default THEN oddLeft ELSE oddLeft - 1
            /\ reqLog' = Append(reqLog, [ticker |-> row[1], symbol |-> AvSymbol(row[1]),
                                         at |-> clock,
                                         ok |-> quote # None,
                                         pct |-> IF quote = None THEN 0 ELSE quote[3]])
            /\ gainers' = lists.g
            /\ losers' = lists.l
            /\ IF SleepsAfter(mi, Len(QuoteTickers))
               THEN /\ sleepLog' = Append(sleepLog, answered)
                    /\ clock' = answered + SleepDelay
               ELSE /\ clock' = answered
                    /\ UNCHANGED sleepLog
            /\ mi' = mi + 1
    /\ UNCHANGED <<pc, env, universe, mainVars, indexVars, newsVars, fmtVars, mdDoc, exitCode>>

\* Lines 410 and 492-497: the loop is over; the text blocks.
MoversEnd ==
    /\ pc = "movers_loop"
    /\ mi = Len(QuoteTickers)
    /\ movers_blocks' = <<FormatGainersLosers(gainers, losers, "US (NDX)"),
                          UnsupportedBlock("CN"), UnsupportedBlock("HK")>>
    /\ pc' = "save"
    /\ UNCHANGED <<args, disk, disk0, cache, idx, rows, sections, failures,
                   indices_data, report_date, srcLog, out>>
    /\ UNCHANGED <<moverVars, indexVars, newsVars, fmtVars, mdDoc, exitCode>>

\* Line 499.
SaveStep ==
    /\ pc = "save"
    /\ disk' = SaveCache(cache)
    /\ pc' = "markdown"
    /\ UNCHANGED <<args, disk0, cache, idx, rows, sections, failures,
                   indices_data, report_date, srcLog, movers_blocks, out>>
    /\ UNCHANGED <<moverVars, indexVars, newsVars, fmtVars, mdDoc, exitCode>>

\* Lines 502-512: the markdown file gets us_gainers and us_losers as
\* _get_movers_alphavantage returned them.
MarkdownStep ==
    /\ pc = "markdown"
    /\ mdDoc' = IF args.markdown
                THEN FormatMarkdown(
                        IF report_date # NoDate THEN Strftime(report_date)
                        ELSE IF args.date # NoDate THEN Strftime(args.date)
                        ELSE Strftime(env.today),
                        indices_data, gainers, losers, env.today)
                ELSE mdDoc
    /\ pc' = "report"
    /\ UNCHANGED <<mainVars, moverVars, indexVars, newsVars, fmtVars, exitCode>>

FailedLineHead == "- failed tickers: "

Comments(fs) ==
    <<(<<"comments:">>), (<<"- indices: Stooq free API">>),
      (<<"- US movers: Alpha Vantage free API (5 per minute)">>),
      (<<"- CN/HK movers: skipped, not supported by Alpha Vantage">>)>>
    \o (IF fs # <<>> THEN <<(<<FailedLineHead, JoinComma(fs)>>)>> ELSE <<>>)

\* Lines 514-534: the report, a sequence of blocks, and the return value.
ReportStep ==
    /\ pc = "report"
    /\ out' = <<(<<(<<"daily index snapshot">>)>>),
                (<<(IF report_date # NoDate
                    THEN <<"as of: ", Strftime(report_date)>>
                    ELSE <<"as of: lookup failed">>)>>)>>
              \o sections \o movers_blocks \o <<Comments(failures)>>
    /\ exitCode' = 0
    /\ pc' = "done"
    /\ UNCHANGED <<args, disk, disk0, cache, idx, rows, sections, failures,
                   indices_data, report_date, srcLog, movers_blocks>>
    /\ UNCHANGED <<moverVars, indexVars, newsVars, fmtVars, mdDoc>>

NextMain ==
    \/ MainStart
    \/ IndexStep
    \/ MoversBegin
    \/ MoverStep
    \/ MoversEnd
    \/ SaveStep
    \/ MarkdownStep
    \/ ReportStep

(***************************************************************************)
(* Runs of main.  The three specifications share NextMain and differ in    *)
(* the arguments and the outside world they start from.                    *)
(***************************************************************************)
GoodCsv == Response("csv", TRUE, <<<<2, 2>>, <<1, 1>>, <<3, 1>>>>)
OneRowCsv == Response("csv", TRUE, <<<<2, 2>>>>)
ZeroPrevCsv == Response("csv", TRUE, <<<<1, 0>>, <<2, 1>>>>)
NetErr == Response("neterr", FALSE, <<>>)
RateLimited == Response("ratelimit", FALSE, <<>>)

MainResponses == {NetErr, RateLimited, OneRowCsv, GoodCsv, ZeroPrevCsv}

OldEntry == [date |-> Strftime(1), close |-> 2, prev |-> 1, source |-> "yfinance"]

MainDiskFiles ==
    { DiskFile("missing", EmptyDict),
      DiskFile("corrupt", EmptyDict),
      DiskFile("ok", [t \in {"^GSPC", "000300.SS", "AAPL"} |->
                        IF t = "^GSPC" THEN OldEntry ELSE Entry(Strftime(1), 2, 1)]),
      DiskFile("ok", [t \in {"^NDX", "^HSI", "000300.SS", "AAPL"} |->
                        IF t = "^NDX" THEN [date |-> Strftime(1), close |-> 2]
                        ELSE IF t = "^HSI" THEN Entry(BadDateText, 2, 1)
                        ELSE Entry(Strftime(3), 1, 2)]) }

Quote(pct) == QuoteResponse("quote", 100, 1, pct)
RateNote == QuoteResponse("note", 0, 0, 0)

MainQuotes == {RateNote, Quote(100), Quote(0 - 100)}

AllQuotes ==
    { QuoteResponse("neterr", 0, 0, 0), RateNote, QuoteResponse("empty", 0, 0, 0),
      QuoteResponse("quote", 0, 0, 0),
      Quote(0 - 200), Quote(0 - 100), Quote(0), Quote(100), Quote(200) }

RateQuotes == {RateNote, Quote(100)}

InitRun(argSet, files, envs) ==
    /\ pc = "main_start"
    /\ args \in argSet
    /\ disk \in files
    /\ disk0 = disk
    /\ env \in envs
    /\ oddLeft = MaxOdd
    /\ cache = EmptyDict /\ idx = 0 /\ rows = <<>> /\ sections = <<>>
    /\ failures = <<>> /\ indices_data = EmptyIndices(NoDate)
    /\ report_date = NoDate /\ srcLog = <<>> /\ movers_blocks = <<>> /\ out = <<>>
    /\ universe = <<>> /\ mi = 0 /\ gainers = <<>> /\ losers = <<>>
    /\ clock = 0 /\ reqLog = <<>> /\ sleepLog = <<>>
    /\ IndexIdle /\ NewsIdle /\ FmtIdle
    /\ mdDoc = <<>> /\ exitCode = NoExit

Envs(stooq, kinds, sizes, hk, pool, latencies) ==
    {[stooq |-> stooq, uniKind |-> k, uniSize |-> n, hkOk |-> h,
      pool |-> pool, default |-> d, latency |-> l, today |-> MaxDate] :
        k \in kinds, n \in sizes, h \in hk, d \in pool, l \in latencies}

InitMain ==
    InitRun([date : {NoDate, 2}, skip_movers : BOOLEAN, markdown : BOOLEAN],
            MainDiskFiles,
            Envs(MainResponses, {"csv", "wiki"}, 0..MaxMainUniverse, BOOLEAN, MainQuotes, {0})
            \cup Envs(MainResponses, {"fail"}, {0}, {TRUE}, MainQuotes, {0}))

SpecMain == InitMain /\ [][NextMain]_vars

InitMovers ==
    InitRun([date : {NoDate}, skip_movers : {FALSE}, markdown : {TRUE}],
            {DiskFile("missing", EmptyDict)},
            Envs({GoodCsv}, {"csv"}, 0..MaxUniverse, {TRUE}, AllQuotes, {0}))

SpecMovers == InitMovers /\ [][NextMain]_vars

InitRate ==
    InitRun([date : {NoDate}, skip_movers : {FALSE}, markdown : {FALSE}],
            {DiskFile("missing", EmptyDict)},
            Envs({NetErr}, {"csv", "wiki"}, 0..MaxRateUniverse, {TRUE}, RateQuotes, 0..MaxLatency))

SpecRate == InitRate /\ [][NextMain]_vars

(***************************************************************************)
(* Claims about main (SpecMain)                                            *)
(***************************************************************************)
AfterIndexLoop == pc \in {"movers", "movers_loop", "save", "markdown", "report", "done"}

\* What the history says: no source answered for this index.
AllSourcesFailed(e) == (e.symbol = "" \/ e.live = None) /\ e.cached = None

RECURSIVE FailedTickers(_)
FailedTickers(log) ==
    IF log = <<>> THEN <<>>
    ELSE (IF AllSourcesFailed(Head(log)) THEN <<Head(log).ticker>> ELSE <<>>)
         \o FailedTickers(Tail(log))

\* The index rows of the finished sections, in the order printed.
RECURSIVE SectionRows(_)
SectionRows(secs) ==
    IF secs = <<>> THEN <<>>
    ELSE SubSeq(Head(secs), 5, Len(Head(secs)) - 1) \o SectionRows(Tail(secs))

IsPlaceholderRow(row) == row[3] = FailText /\ row[5] = FailText /\ row[7] = FailText
HasNoPlaceholder(row) == row[3] # FailText /\ row[5] # FailText /\ row[7] # FailText

FooterLines == out[Len(out)]
FailedLines == {k \in 1..Len(FooterLines) : FooterLines[k][1] = FailedLineHead}

\* C2: after the index loop the failure list holds exactly the tickers of
\* the indices no source resolved, once each, in iteration order; those
\* indices and no others have the placeholder in their three value
\* columns; the footer of the report has the failed-tickers line exactly
\* when the list is not empty.
C2_FailureList ==
    /\ AfterIndexLoop =>
          /\ Len(srcLog) = NumIndices
          /\ failures = FailedTickers(srcLog)
          /\ Len(SectionRows(sections)) = NumIndices
          /\ \A k \in 1..NumIndices :
                /\ SectionRows(sections)[k][1] = IndexDefs[k].name
                /\ IF AllSourcesFailed(srcLog[k])
                   THEN IsPlaceholderRow(SectionRows(sections)[k])
                   ELSE HasNoPlaceholder(SectionRows(sections)[k])
    /\ pc = "done" =>
          /\ (FailedLines # {}) <=> (FailedTickers(srcLog) # <<>>)
          /\ \A k \in FailedLines : FooterLines[k][2] = JoinComma(FailedTickers(srcLog))

\* A report with some failed and some resolved indices, the cache having
\* served one of them.
C2_Witness ==
    /\ pc = "done"
    /\ Len(failures) >= 2 /\ Len(failures) < NumIndices
    /\ FailedLines # {}
    /\ \E k \in 1..NumIndices : srcLog[k].live = None /\ srcLog[k].cached # None

\* C3: whatever the sources answer, main raises nothing and returns 0.
C3_MainNeverRaises ==
    /\ pc # "raised"
    /\ pc = "done" => exitCode = 0

LiveResolved(e) == e.symbol # "" /\ e.live # None

\* C5: once main has ended, the cache file holds, for every index whose
\* live fetch succeeded, exactly {date, close, prev} of that fetch.
C5_LiveEntriesPersisted ==
    pc \in {"done", "raised"} =>
        \A k \in 1..Len(srcLog) :
            LiveResolved(srcLog[k]) =>
                /\ disk.kind = "ok"
                /\ srcLog[k].ticker \in DOMAIN disk.data
                /\ disk.data[srcLog[k].ticker]
                     = Entry(Strftime(srcLog[k].live[1]), srcLog[k].live[2], srcLog[k].live[3])

\* C5, for the runs in which main returns: the same statement.
C5_WhenMainReturns ==
    pc = "done" =>
        \A k \in 1..Len(srcLog) :
            LiveResolved(srcLog[k]) =>
                /\ disk.kind = "ok"
                /\ srcLog[k].ticker \in DOMAIN disk.data
                /\ disk.data[srcLog[k].ticker]
                     = Entry(Strftime(srcLog[k].live[1]), srcLog[k].live[2], srcLog[k].live[3])

(***************************************************************************)
(* Claims about the movers (SpecMovers, SpecRate)                          *)
(***************************************************************************)
PctsKnown == {q.pct : q \in env.pool}

\* The percentage a rendered text stands for.
PctOfText(text) == CHOOSE p \in PctsKnown : Fpct(p) = text

FirstIndex(doc, line) ==
    IF \E k \in 1..Len(doc) : doc[k] = line
    THEN CHOOSE k \in 1..Len(doc) : doc[k] = line /\ \A j \in 1..(k - 1) : doc[j] # line
    ELSE 0

RECURSIVE Pick(_, _, _, _, _)
\* The piece `col` of the lines of `doc` in lo..hi that have `width` pieces.
Pick(doc, lo, hi, width, col) ==
    IF lo > hi THEN <<>>
    ELSE (IF Len(doc[lo]) = width THEN <<doc[lo][col]>> ELSE <<>>)
         \o Pick(doc, lo + 1, hi, width, col)

PctsOf(texts) == [k \in 1..Len(texts) |-> PctOfText(texts[k])]

\* The US block of the text report: the table of gainers is above the
\* empty line, the table of losers below it.
TextShown == pc \in {"save", "markdown", "report", "done"} /\ ~args.skip_movers
TextBlock == movers_blocks[1]
TextSplit == FirstIndex(TextBlock, <<"">>)
TextGainers == PctsOf(Pick(TextBlock, 1, TextSplit, 5, 5))
TextLosers == PctsOf(Pick(TextBlock, TextSplit, Len(TextBlock), 5, 5))

\* The markdown file: the gainers under "## Top Gainers", the losers under
\* "## Top Losers".
MdShown == mdDoc # <<>>
MdLosersAt == FirstIndex(mdDoc, <<MdLosersTitle>>)
MdGainersAt == FirstIndex(mdDoc, <<MdGainersTitle>>)
MdGainers ==
    IF MdGainersAt = 0 THEN <<>>
    ELSE PctsOf(Pick(mdDoc, MdGainersAt,
                     IF MdLosersAt = 0 THEN Len(mdDoc) ELSE MdLosersAt, 6, 4))
MdLosers ==
    IF MdLosersAt = 0 THEN <<>>
    ELSE PctsOf(Pick(mdDoc, MdLosersAt, Len(mdDoc), 6, 4))

StrictlyDescending(ps) == \A k \in 1..(Len(ps) - 1) : ps[k] > ps[k + 1]
StrictlyAscending(ps) == \A k \in 1..(Len(ps) - 1) : ps[k] < ps[k + 1]
Descending(ps) == \A k \in 1..(Len(ps) - 1) : ps[k] >= ps[k + 1]
Ascending(ps) == \A k \in 1..(Len(ps) - 1) : ps[k] <= ps[k + 1]

\* C6: every emitted gainers list is strictly descending and every emitted
\* losers list strictly ascending by percentage, in the text report and in
\* the markdown file.
C6_StrictOrder ==
    /\ TextShown => StrictlyDescending(TextGainers) /\ StrictlyAscending(TextLosers)
    /\ MdShown => StrictlyDescending(MdGainers) /\ StrictlyAscending(MdLosers)

\* C6, the part the text report keeps: its tables are ordered, equal
\* percentages side by side.
C6_TextOrdered ==
    TextShown => Descending(TextGainers) /\ Ascending(TextLosers)

\* C6, the same part for the markdown file.
C6_MarkdownOrdered ==
    MdShown => Descending(MdGainers) /\ Ascending(MdLosers)

CountAbove(ps, v) == Cardinality({k \in 1..Len(ps) : ps[k] > v})
CountBelow(ps, v) == Cardinality({k \in 1..Len(ps) : ps[k] < v})
FetchedPcts(ms) == [k \in 1..Len(ms) |-> ms[k][3]]

\* `shown` are the n largest of `all` (all of them when there are fewer).
LargestOf(shown, all, n) ==
    /\ Len(shown) = Min(n, Len(all))
    /\ \A v \in PctsKnown : CountAbove(shown, v) = Min(n, CountAbove(all, v))

SmallestOf(shown, all, n) ==
    /\ Len(shown) = Min(n, Len(all))
    /\ \A v \in PctsKnown : CountBelow(shown, v) = Min(n, CountBelow(all, v))

\* C7: every emitted movers list has at most 10 entries, the 10 largest
\* gainers (the 10 most negative losers) of all that were fetched, in the
\* text report and in the markdown file alike.
C7_TopTen ==
    /\ TextShown => /\ LargestOf(TextGainers, FetchedPcts(gainers), 10)
                    /\ SmallestOf(TextLosers, FetchedPcts(losers), 10)
    /\ MdShown => /\ LargestOf(MdGainers, FetchedPcts(gainers), 10)
                  /\ SmallestOf(MdLosers, FetchedPcts(losers), 10)

\* C7, the part the text report keeps.
C7_TextTopTen ==
    TextShown => /\ LargestOf(TextGainers, FetchedPcts(gainers), 10)
                 /\ SmallestOf(TextLosers, FetchedPcts(losers), 10)

RECURSIVE Quoted(_, _)
\* The tickers of the requests of `log` that were answered with a quote
\* of negative (negative = TRUE) or non-negative percentage, in request
\* order.
Quoted(log, negative) ==
    IF log = <<>> THEN <<>>
    ELSE (IF Head(log).ok /\ ((Head(log).pct < 0) <=> negative)
          THEN <<Head(log).ticker>> ELSE <<>>)
         \o Quoted(Tail(log), negative)
TickersOf(ms) == [k \in 1..Len(ms) |-> ms[k][1]]
Members(seq) == {seq[k] : k \in 1..Len(seq)}

InMoversLoop == pc = "movers_loop"
AfterMoversLoop == pc \in {"save", "markdown", "report", "done"} /\ ~args.skip_movers

\* C8: a quoted ticker is in exactly one list, losers when its percentage
\* is negative and gainers otherwise (0 included); a ticker whose quote
\* failed is in neither, and the loop goes on after it; the lists are
\* disjoint and hold exactly the quoted tickers.
C8_Classification ==
    /\ (InMoversLoop \/ AfterMoversLoop) =>
          /\ TickersOf(gainers) = Quoted(reqLog, FALSE)
          /\ TickersOf(losers) = Quoted(reqLog, TRUE)
          /\ \A k \in 1..Len(gainers) : gainers[k][3] >= 0
          /\ \A k \in 1..Len(losers) : losers[k][3] < 0
          /\ Members(TickersOf(gainers)) \cap Members(TickersOf(losers)) = {}
          /\ Cardinality(Members(TickersOf(gainers))) = Len(gainers)
          /\ Cardinality(Members(TickersOf(losers))) = Len(losers)
          /\ Members(TickersOf(gainers)) \cup Members(TickersOf(losers))
               = {reqLog[k].ticker : k \in {j \in 1..Len(reqLog) : reqLog[j].ok}}
    /\ AfterMoversLoop => Len(reqLog) = Len(QuoteTickers)

\* A failed quote in the middle of the loop, quotes after it, one of them
\* of exactly 0 percent.
C8_Witness ==
    /\ AfterMoversLoop
    /\ \E j \in 1..Len(reqLog) :
          /\ ~reqLog[j].ok
          /\ \E k \in (j + 1)..Len(reqLog) : reqLog[k].ok /\ reqLog[k].pct = 0
    /\ \E k \in 1..Len(gainers) : gainers[k][3] = 0

RateWindow == 60
RateQuota == 5

\* C9: one request per ticker, for the first 25 tickers at most, in
\* order and never repeated; 13 seconds of sleep between two requests and
\* none after the last; hence never more than 5 requests in 60 seconds;
\* the loop ends after min(25, size of the universe) requests.
C9_RateLimit ==
    /\ Len(reqLog) <= Min(25, Len(universe))
    /\ \A k \in 1..Len(reqLog) : reqLog[k].ticker = universe[k][1]
    /\ \A k \in 1..(Len(reqLog) - 1) :
          /\ sleepLog[k] = reqLog[k].at + env.latency
          /\ reqLog[k + 1].at = sleepLog[k] + 13
    /\ \A k \in 1..(Len(reqLog) - RateQuota) :
          reqLog[k + RateQuota].at - reqLog[k].at > RateWindow
    /\ AfterMoversLoop =>
          /\ Len(reqLog) = Min(25, Len(universe))
          /\ Len(sleepLog) = IF reqLog = <<>> THEN 0 ELSE Len(reqLog) - 1
          /\ reqLog # <<>> => clock = reqLog[Len(reqLog)].at + env.latency

\* A universe of more than 25 tickers was cut to 25 requests, one of them
\* failed, and the requests were as close as the code lets them be.
C9_Witness ==
    /\ AfterMoversLoop
    /\ Len(universe) > QuoteLimit /\ Len(reqLog) = QuoteLimit
    /\ env.latency = 0
    /\ \E k \in 1..Len(reqLog) : ~reqLog[k].ok
    /\ \E k \in 1..Len(reqLog) : reqLog[k].ok

(***************************************************************************)
(* news_crawler.py: the formatters and main_async                          *)
(* An item is [title, summary, source, time, importance, sentiment,        *)
(* tickers].  The sentiments are "POS", "NEG", "NEU" for the Korean words  *)
(* of the page, the emoji are written as ASCII tags.  `now` is the reading *)
(* of datetime.now(): [day, hm].                                           *)
(***************************************************************************)
Truncate(text, n) == IF Len(text) > n THEN SubSeq(text, 1, n) ELSE text

ImportanceEmoji(imp) ==
    IF imp = "HIGH" THEN "(red)" ELSE IF imp = "MEDIUM" THEN "(yellow)"
    ELSE IF imp = "LOW" THEN "(green)" ELSE "(white)"

SentimentEmoji(sent) ==
    IF sent = "POS" THEN "(up)" ELSE IF sent = "NEG" THEN "(down)"
    ELSE IF sent = "NEU" THEN "(flat)" ELSE ""

NoNewsText == "no news found (report)"

SummaryWidth == 150

RECURSIVE ReportItems(_, _)
ReportItems(items, i) ==
    IF items = <<>> THEN <<>>
    ELSE LET item == Head(items)
         IN  <<(<<"[", ToString(i), "] ", ImportanceEmoji(item.importance), " ", item.title>>),
               (<<"    ", item.source, " . ", item.time, " ", SentimentEmoji(item.sentiment)>>)>>
             \o (IF item.summary # ""
                 THEN <<(<<"    ", IF Len(item.summary) > SummaryWidth
                                   THEN SubSeq(item.summary, 1, SummaryWidth) \o "..."
                                   ELSE item.summary>>)>>
                 ELSE <<>>)
             \o (IF item.tickers # <<>>
                 THEN <<(<<"    tickers: ", JoinComma(item.tickers)>>)>>
                 ELSE <<>>)
             \o <<(<<"">>)>>
             \o ReportItems(Tail(items), i + 1)

\* A report formatter that prints its header for the empty list too.
FormatNewsReportNoGuardMutant(items, now) ==
    <<(<<"BlackQuant global news">>),
      (<<"collected: ", Strftime(now.day), " ", now.hm>>),
      (<<"total ", ToString(Len(items))>>), (<<"">>), (<<"=====">>), (<<"">>)>>
    \o ReportItems(items, 1)

\* format_news_report
FormatNewsReport(items, now) ==
    IF items = <<>> THEN <<(<<NoNewsText>>)>>
    ELSE <<(<<"BlackQuant global news">>),
           (<<"collected: ", Strftime(now.day), " ", now.hm>>),
           (<<"total ", ToString(Len(items))>>), (<<"">>), (<<"=====">>), (<<"">>)>>
         \o ReportItems(items, 1)

TelegramTitleWidth == 60

TelegramLine(item) ==
    << (IF item.importance = "HIGH" THEN "(red)"
        ELSE IF item.importance = "MEDIUM" THEN "(yellow)" ELSE ""),
       (IF item.sentiment = "POS" THEN "^" ELSE IF item.sentiment = "NEG" THEN "v" ELSE ""),
       " ", Truncate(item.title, TelegramTitleWidth),
       (IF item.tickers # <<>> THEN " [" \o item.tickers[1] \o "]" ELSE "") >>

\* format_telegram
FormatTelegram(items, now) ==
    IF items = <<>> THEN <<(<<"no news">>)>>
    ELSE <<(<<"global news (", now.hm, ")">>), (<<"">>)>> \o [k \in 1..Len(items) |-> TelegramLine(items[k])]

ImportanceTag(imp) ==
    IF imp = "HIGH" THEN "(red) HIGH" ELSE IF imp = "MEDIUM" THEN "(yellow) MED"
    ELSE IF imp = "LOW" THEN "(green) LOW" ELSE ""

\* t.replace('.US', '').replace('.HK', '')
TickerKey(t) == ReplaceAll(ReplaceAll(t, ".US", ""), ".HK", "")

RECURSIVE JoinSpace(_)
JoinSpace(ss) ==
    IF ss = <<>> THEN ""
    ELSE IF Len(ss) = 1 THEN ss[1]
    ELSE ss[1] \o " " \o JoinSpace(Tail(ss))

TickerLink(t) == "[[" \o TickerKey(t) \o "]]"

RECURSIVE MdItems(_, _)
MdItems(items, i) ==
    IF items = <<>> THEN <<>>
    ELSE LET item == Head(items)
             links == JoinSpace([k \in 1..Len(item.tickers) |-> TickerLink(item.tickers[k])])
         IN  <<(<<"### ", ToString(i), ". ", item.title>>), (<<"">>),
               (<<"- **Source**: ", item.source, " . ", item.time>>),
               (<<"- **Importance**: ", ImportanceTag(item.importance), " ",
                  SentimentEmoji(item.sentiment)>>)>>
             \o (IF links # "" THEN <<(<<"- **Tickers**: ", links>>)>> ELSE <<>>)
             \o <<(<<"">>)>>
             \o (IF item.summary # "" THEN <<(<<"> ", item.summary>>), (<<"">>)>> ELSE <<>>)
             \o MdItems(Tail(items), i + 1)

\* ticker_news: the keys in the order of their first mention, each with
\* the number of titles collected under it.
RECURSIVE CountKey(_, _)
CountKey(keys, key) ==
    IF keys = <<>> THEN 0
    ELSE (IF Head(keys) = key THEN 1 ELSE 0) + CountKey(Tail(keys), key)

RECURSIVE MentionedKeys(_)
MentionedKeys(items) ==
    IF items = <<>> THEN <<>>
    ELSE [k \in 1..Len(Head(items).tickers) |-> TickerKey(Head(items).tickers[k])] \o MentionedKeys(Tail(items))

RECURSIVE FirstMentions(_, _)
FirstMentions(keys, seen) ==
    IF keys = <<>> THEN <<>>
    ELSE IF Head(keys) \in seen THEN FirstMentions(Tail(keys), seen)
    ELSE <<Head(keys)>> \o FirstMentions(Tail(keys), seen \cup {Head(keys)})

ByTickerWidth == 10

ByTicker(items) ==
    LET keys == MentionedKeys(items)
        firsts == Take(FirstMentions(keys, {}), ByTickerWidth)
    IN  IF firsts = <<>> THEN <<>>
        ELSE <<(<<"">>), (<<"### By Ticker">>)>>
             \o [k \in 1..Len(firsts) |->
                    <<"- [[", firsts[k], "]]: ", ToString(CountKey(keys, firsts[k]))>>]

\* format_markdown of the news scraper
NewsFormatMarkdown(items, now) ==
    IF items = <<>>
    THEN <<(<<"# Global News">>), (<<"">>), (<<"No news found.">>)>>
    ELSE <<(<<"---">>), (<<"date: ", Strftime(now.day)>>), (<<"type: news">>),
           (<<"tags: [news, market, daily]">>), (<<"---">>), (<<"">>),
           (<<"# Global News - ", Strftime(now.day)>>), (<<"">>),
           (<<"> collected: ", Strftime(now.day), " ", now.hm, "  ">>),
           (<<"> total ", ToString(Len(items))>>), (<<"">>),
           (<<"## Headlines">>), (<<"">>)>>
         \o MdItems(items, 1)
         \o <<(<<"---">>), (<<"">>), (<<"## Related">>), (<<"">>),
              (<<"- [[", Strftime(now.day - 1), "|yesterday's news]]">>),
              (<<"- [[Daily Market Snapshot - ", Strftime(now.day), "|today's market]]">>)>>
         \o ByTicker(items)

(***************************************************************************)
(* main_async: the state after crawl_blackquant_news has returned, then    *)
(* the files and the report of the run.                                    *)
(***************************************************************************)
Item(title, summary, importance, sentiment, tickers) ==
    [title |-> title, summary |-> summary, source |-> "Reuters", time |-> "1h",
     importance |-> importance, sentiment |-> sentiment, tickers |-> tickers]

LongTitle == "Chipmakers rally as export data beats every forecast for a third straight month"

NewsSamples ==
    { Item("Fed holds rates", "", "HIGH", "POS", <<>>),
      Item(LongTitle, "Exports rose.", "", "", <<"AMZN.US", "0700.HK">>),
      Item("Tesla recalls", "Recall of one model.", "MEDIUM", "NEG", <<"TSLA.US", "AMZN.US">>) }

NewsLists == UNION { [1..n -> NewsSamples] : n \in 0..MaxNews }

NewsClock == [day : Dates, hm : {"09:00", "23:59"}]

(***************************************************************************)
(* crawl_blackquant_news                                                   *)
(* The page is [loaded, cards]: loaded = FALSE when page.goto raises,      *)
(* cards the elements of classes group, p-4 and rounded-xl in page order   *)
(* as they are when the selectors are queried (after the optional filter   *)
(* click).  The fallback selector matches all of them, the primary         *)
(* selector those that have the class border too.  Inside a card every     *)
(* selector answers an element [kind, text]:                               *)
(*   "none"   nothing matches                                              *)
(*   "text"   an element whose inner_text() is `text`                      *)
(*   "raise"  the query or inner_text() raises (element detached, timeout) *)
(* "|" stands for the middle dot between source and time.                  *)
(***************************************************************************)
Elem(kind, text) == [kind |-> kind, text |-> text]
Absent == Elem("none", "")
Text(t) == Elem("text", t)
Raising == Elem("raise", "")

RECURSIVE LStrip(_)
LStrip(s) ==
    IF Len(s) > 0 /\ SubSeq(s, 1, 1) = " " THEN LStrip(SubSeq(s, 2, Len(s))) ELSE s

RECURSIVE RStrip(_)
RStrip(s) ==
    IF Len(s) > 0 /\ SubSeq(s, Len(s), Len(s)) = " "
    THEN RStrip(SubSeq(s, 1, Len(s) - 1)) ELSE s

\* str.strip()
Strip(s) == RStrip(LStrip(s))

RECURSIVE FindChar(_, _, _)
\* Index of the first `c` of s at or after k, 0 when there is none.
FindChar(s, c, k) ==
    IF k > Len(s) THEN 0
    ELSE IF SubSeq(s, k, k) = c THEN k
    ELSE FindChar(s, c, k + 1)

RECURSIVE Split(_, _)
\* str.split(c)
Split(s, c) ==
    LET k == FindChar(s, c, 1)
    IN  IF k = 0 THEN <<s>>
        ELSE <<SubSeq(s, 1, k - 1)>> \o Split(SubSeq(s, k + 1, Len(s)), c)

Contains(s, c) == FindChar(s, c, 1) # 0

MiddleDot == "|"
Sentiments == {"POS", "NEG", "NEU"}

\* A field is [raised, value]: what the lines of one field compute, or
\* that they raise.
Field(v) == [raised |-> FALSE, value |-> v]
FieldRaised == [raised |-> TRUE, value |-> ""]

\* Lines 88-90 (title) and 93-95 (summary).
TextField(e) ==
    IF e.kind = "raise" THEN FieldRaised
    ELSE IF e.kind = "none" THEN Field("")
    ELSE Field(Strip(e.text))

\* Lines 98-108: <<source, time>>.
SourceTimeField(e) ==
    IF e.kind = "raise" THEN FieldRaised
    ELSE IF e.kind = "none" THEN Field(<<"", "">>)
    ELSE LET parts == Split(e.text, MiddleDot)
         IN  IF Len(parts) >= 2 THEN Field(<<Strip(parts[1]), Strip(parts[2])>>)
             ELSE Field(<<Strip(parts[1]), "">>)

\* Lines 111-115.
ImportanceField(e) == TextField(e)

RECURSIVE SentimentField(_)
\* Lines 118-124: the first badge whose text is a sentiment; the badges
\* after it are not read.
SentimentField(badges) ==
    IF badges = <<>> THEN Field("")
    ELSE IF Head(badges).kind = "raise" THEN FieldRaised
    ELSE IF Strip(Head(badges).text) \in Sentiments THEN Field(Strip(Head(badges).text))
    ELSE SentimentField(Tail(badges))

RECURSIVE TickersField(_)
\* Lines 127-133: the texts that have a '.'.
TickersField(elems) ==
    IF elems = <<>> THEN Field(<<>>)
    ELSE IF Head(elems).kind = "raise" THEN FieldRaised
    ELSE LET rest == TickersField(Tail(elems))
             t == Strip(Head(elems).text)
         IN  IF rest.raised THEN FieldRaised
             ELSE IF t # "" /\ Contains(t, ".") THEN Field(<<t>> \o rest.value)
             ELSE rest

\* Lines 86-148 for one card: "raised" when a line of the try block
\* raises (the card is skipped), "untitled" when the title is empty, else
\* the item.
ExtractCard(card) ==
    LET title == TextField(card.title)
        summary == TextField(card.summary)
        st == SourceTimeField(card.first_line)
        importance == ImportanceField(card.badge)
        sentiment == SentimentField(card.sentiments)
        tickers == TickersField(card.tickers)
    IN  IF title.raised \/ summary.raised \/ st.raised \/ importance.raised
           \/ sentiment.raised \/ tickers.raised
        THEN [outcome |-> "raised"]
        ELSE IF title.value = "" THEN [outcome |-> "untitled"]
        ELSE [outcome |-> "item",
              item |-> [title |-> title.value, summary |-> summary.value,
                        source |-> st.value[1], time |-> st.value[2],
                        importance |-> importance.value,
                        sentiment |-> sentiment.value,
                        tickers |-> tickers.value]]

\* Lines 77-81: the primary selector, the fallback when it matched nothing.
PrimaryCards(cards) == SelectSeq(cards, LAMBDA c : c.border)
QueryCards(cards) == IF PrimaryCards(cards) # <<>> THEN PrimaryCards(cards) ELSE cards

\* news_cards[:limit], a Python slice: a negative limit counts from the end.
SliceTo(seq, limit) ==
    IF limit >= 0 THEN SubSeq(seq, 1, Min(limit, Len(seq)))
    ELSE SubSeq(seq, 1, IF Len(seq) + limit > 0 THEN Len(seq) + limit ELSE 0)

Card(border, title, summary, first_line, badge, sentiments, tickers) ==
    [border |-> border, title |-> title, summary |-> summary,
     first_line |-> first_line, badge |-> badge, sentiments |-> sentiments,
     tickers |-> tickers]

CardSamples ==
    { Card(TRUE, Text(" Fed holds rates "), Absent, Text("Reuters | 1h "), Text("HIGH"),
           <<Text("2m read"), Text(" POS "), Raising>>, <<Text("AMZN.US"), Text("NVDA")>>),
      Card(TRUE, Absent, Text("A summary without a title."), Text("Reuters"), Absent,
           <<>>, <<>>),
      Card(TRUE, Text("   "), Absent, Absent, Absent, <<>>, <<>>),
      Card(TRUE, Text("Tesla recalls"), Raising, Text("Bloomberg | 2h"), Text("MEDIUM"),
           <<Text("NEG")>>, <<Text("TSLA.US")>>),
      Card(FALSE, Text("Oil slips"), Text(" Crude fell. "), Absent, Absent,
           <<Text("mixed")>>, <<>>) }

Pages ==
    {NoPage} \cup
    { [loaded |-> TRUE, cards |-> cs] :
        cs \in UNION { [1..n -> CardSamples] : n \in 0..MaxCards } }

Limits == {0 - 1, 0, 1, 2, DefaultLimit}

InitNews ==
    /\ pc = "news_start"
    /\ page \in Pages
    /\ newsArgs \in [limit : Limits, output : BOOLEAN, markdown : BOOLEAN,
                     telegram : BOOLEAN]
    /\ news_cards = <<>> /\ ci = 0 /\ cardLog = <<>>
    /\ news_items = <<>>
    /\ newsJson = <<>> /\ newsMd = <<>> /\ newsReport = <<>>
    /\ ixIn = NoIndexCall /\ ixOut = NoIndexResult
    /\ MainIdle /\ MoversIdle /\ FmtIdle
    /\ mdDoc = <<>> /\ exitCode = NoExit

\* Lines 52-85: the page is loaded (page.goto raises out of the crawl and
\* of main_async when it cannot be) and the cards are selected.
CrawlStart ==
    /\ pc = "news_start"
    /\ IF page.loaded
       THEN /\ news_cards' = QueryCards(page.cards)
            /\ pc' = "news_cards"
       ELSE /\ news_cards' = news_cards
            /\ pc' = "news_raised"
    /\ UNCHANGED <<page, ci, cardLog, news_items, newsArgs, newsJson, newsMd, newsReport,
                   indexVars, mainVars, moverVars, fmtVars, mdDoc, exitCode>>

\* Lines 85-148: one card of news_cards[:limit].
CardStep ==
    /\ pc = "news_cards"
    /\ ci < Len(SliceTo(news_cards, newsArgs.limit))
    /\ LET card == SliceTo(news_cards, newsArgs.limit)[ci + 1]
           got == ExtractCard(card)
       IN  /\ news_items' = IF got.outcome = "item" THEN Append(news_items, got.item)
                            ELSE news_items
           /\ cardLog' = Append(cardLog, [card |-> card, outcome |-> got.outcome,
                                          kept |-> IF got.outcome = "item"
                                                   THEN <<got.item>> ELSE <<>>])
    /\ ci' = ci + 1
    /\ UNCHANGED <<pc, page, news_cards, newsArgs, newsJson, newsMd, newsReport,
                   indexVars, mainVars, moverVars, fmtVars, mdDoc, exitCode>>

\* Lines 150-152: the browser is closed, the items are returned.
CrawlEnd ==
    /\ pc = "news_cards"
    /\ ci = Len(SliceTo(news_cards, newsArgs.limit))
    /\ pc' = "news_crawled"
    /\ UNCHANGED <<crawlVars, news_items, newsArgs, newsJson, newsMd, newsReport,
                   indexVars, mainVars, moverVars, fmtVars, mdDoc, exitCode>>

\* main_async after the crawl: --output, --markdown, then the report.
NewsMain ==
    /\ pc = "news_crawled"
    /\ \E now \in NewsClock :
          /\ newsJson' = IF newsArgs.output THEN <<news_items>> ELSE newsJson
          /\ newsMd' = IF newsArgs.markdown THEN NewsFormatMarkdown(news_items, now) ELSE newsMd
          /\ newsReport' = IF newsArgs.telegram THEN FormatTelegram(news_items, now)
                           ELSE IF newsArgs.markdown THEN <<(<<"markdown saved">>)>>
                           ELSE FormatNewsReport(news_items, now)
    /\ exitCode' = 0
    /\ pc' = "news_done"
    /\ UNCHANGED <<crawlVars, news_items, newsArgs, indexVars, mainVars, moverVars, fmtVars, mdDoc>>

NextNews == CrawlStart \/ CardStep \/ CrawlEnd \/ NewsMain

SpecNews == InitNews /\ [][NextNews]_vars

(***************************************************************************)
(* Claims about the markdown documents (SpecMain, SpecNews)                *)
(***************************************************************************)
HasLine(doc, line) == \E k \in 1..Len(doc) : doc[k] = line

\* The document opens with a YAML front matter block: "---", then lines
\* of the block, then a closing "---".
HasFrontMatter(doc) ==
    /\ Len(doc) >= 2
    /\ doc[1] = <<"---">>
    /\ \E k \in 2..Len(doc) : doc[k] = <<"---">>

WellFormedMarkdown(doc) == HasFrontMatter(doc) /\ HasLine(doc, <<"## Related">>)

PriceMarkdownWritten == mdDoc # <<>>
NewsMarkdownWritten == pc = "news_done" /\ newsArgs.markdown

\* C10: every markdown document written by either script (the price
\* report of _format_markdown, the news report of format_markdown, the
\* run with no news items included) begins with a YAML front matter block
\* and contains a "## Related" section.
C10_MarkdownShape ==
    /\ PriceMarkdownWritten => WellFormedMarkdown(mdDoc)
    /\ NewsMarkdownWritten => WellFormedMarkdown(newsMd)

\* The part of C10 that the code keeps: the price report, and the news
\* report of a run that collected at least one item.
C10_NonEmptyShape ==
    /\ PriceMarkdownWritten => WellFormedMarkdown(mdDoc)
    /\ (NewsMarkdownWritten /\ news_items # <<>>) => WellFormedMarkdown(newsMd)

(***************************************************************************)
(* SpecFormat: every formatting function called twice on the same data,    *)
(* the clock read by the second call being any clock not before the first. *)
(***************************************************************************)
FormatMovers == <<(<<"T1", "Name1", 150>>), (<<"T3", "Name3", 150>>), (<<"T4", "Name4", 0 - 25>>)>>

FormatIndices(as_of) ==
    [EmptyIndices(as_of) EXCEPT
        !.US = <<IndexEntry("S&P 500", <<200>>, <<100>>, <<10000>>)>>,
        !.HK = <<IndexEntry("Hang Seng", <<>>, <<>>, <<>>)>>]

FormatInputs ==
    [items : NewsLists, report_date : {"", Strftime(2)}, as_of : {NoDate, 2}]

\* What the eight formatting functions return for the data `in` when the
\* clock of the machine reads `now` during the call.
AllFormats(in, now) ==
    [fmt_row |-> FmtRow("S&P 500", <<200>>, <<100>>, <<10000>>),
     section |-> Section("US", <<FmtRow("S&P 500", <<200>>, <<100>>, <<10000>>),
                                 FmtRow("Hang Seng", <<>>, <<>>, <<>>)>>),
     movers_table |-> MoversTable("up", FormatMovers, TopN),
     gainers_losers |-> FormatGainersLosers(SubSeq(FormatMovers, 1, 2),
                                            SubSeq(FormatMovers, 3, 3), "US"),
     price_markdown |-> FormatMarkdown(in.report_date, FormatIndices(in.as_of),
                                       SubSeq(FormatMovers, 1, 2),
                                       SubSeq(FormatMovers, 3, 3), now.day),
     news_report |-> FormatNewsReport(in.items, now),
     telegram |-> FormatTelegram(in.items, now),
     news_markdown |-> NewsFormatMarkdown(in.items, now)]

InitFormat ==
    /\ pc = "fmt_first"
    /\ fmtIn \in FormatInputs
    /\ fmtA = NoFormat /\ fmtB = NoFormat
    /\ IndexIdle /\ MainIdle /\ MoversIdle /\ NewsIdle
    /\ mdDoc = <<>> /\ exitCode = NoExit

FormatFirst ==
    /\ pc = "fmt_first"
    /\ \E now \in NewsClock : fmtA' = <<now, AllFormats(fmtIn, now)>>
    /\ pc' = "fmt_second"
    /\ UNCHANGED <<fmtIn, fmtB, indexVars, mainVars, moverVars, newsVars, mdDoc, exitCode>>

FormatSecond ==
    /\ pc = "fmt_second"
    /\ \E now \in NewsClock :
          /\ now.day >= fmtA[1].day
          /\ fmtB' = <<now, AllFormats(fmtIn, now)>>
    /\ pc' = "fmt_done"
    /\ UNCHANGED <<fmtIn, fmtA, indexVars, mainVars, moverVars, newsVars, mdDoc, exitCode>>

NextFormat == FormatFirst \/ FormatSecond

SpecFormat == InitFormat /\ [][NextFormat]_vars

(***************************************************************************)
(* Claims about the formatting functions (SpecFormat)                      *)
(***************************************************************************)
BothFormatted == pc = "fmt_done"

\* C11: every formatting function is deterministic: two calls with the
\* same data return the same text, whatever the time of the two calls.
C11_Deterministic ==
    BothFormatted => fmtA[2] = fmtB[2]

\* C11, the part the code keeps: the four formatters of the text report
\* read no clock; the price markdown reads it only when it is given no
\* report date and no --date; the news formatters read it unless the list
\* is empty (the telegram text only the time of day).
C11_ClockFreeFormatters ==
    BothFormatted =>
        /\ fmtA[2].fmt_row = fmtB[2].fmt_row
        /\ fmtA[2].section = fmtB[2].section
        /\ fmtA[2].movers_table = fmtB[2].movers_table
        /\ fmtA[2].gainers_losers = fmtB[2].gainers_losers
        /\ (fmtIn.report_date # "" \/ fmtIn.as_of # NoDate)
              => fmtA[2].price_markdown = fmtB[2].price_markdown
        /\ fmtIn.items = <<>> =>
              /\ fmtA[2].news_report = fmtB[2].news_report
              /\ fmtA[2].telegram = fmtB[2].telegram
              /\ fmtA[2].news_markdown = fmtB[2].news_markdown
        /\ fmtA[1].hm = fmtB[1].hm => fmtA[2].telegram = fmtB[2].telegram

(***************************************************************************)
(* Claims about crawl_blackquant_news (SpecNews)                           *)
(***************************************************************************)
\* The value a field has when its extraction fails or finds nothing.
OrEmpty(f, empty) == IF f.raised THEN empty ELSE f.value

HasTitle(card) == OrEmpty(TextField(card.title), "") # ""

SomeFieldRaises(card) ==
    \/ TextField(card.title).raised \/ TextField(card.summary).raised
    \/ SourceTimeField(card.first_line).raised \/ ImportanceField(card.badge).raised
    \/ SentimentField(card.sentiments).raised \/ TickersField(card.tickers).raised

\* The record of `card` with every field extracted on its own.
IndependentRecord(card) ==
    [title |-> OrEmpty(TextField(card.title), ""),
     summary |-> OrEmpty(TextField(card.summary), ""),
     source |-> OrEmpty(SourceTimeField(card.first_line), <<"", "">>)[1],
     time |-> OrEmpty(SourceTimeField(card.first_line), <<"", "">>)[2],
     importance |-> OrEmpty(ImportanceField(card.badge), ""),
     sentiment |-> OrEmpty(SentimentField(card.sentiments), ""),
     tickers |-> OrEmpty(TickersField(card.tickers), <<>>)]

\* C12: the fields of a card are extracted independently: a field whose
\* extraction fails or finds nothing is empty, the other fields keep their
\* values, and the record is returned when its title is not empty.
C12_FieldIndependence ==
    \A k \in 1..Len(cardLog) :
        HasTitle(cardLog[k].card) =>
            cardLog[k].kept = <<IndependentRecord(cardLog[k].card)>>

\* C12, the part the code keeps: a field that finds nothing is empty and
\* the others keep their values, as long as no extraction raises.
C12_WhenNothingRaises ==
    \A k \in 1..Len(cardLog) :
        (HasTitle(cardLog[k].card) /\ ~SomeFieldRaises(cardLog[k].card)) =>
            cardLog[k].kept = <<IndependentRecord(cardLog[k].card)>>

\* A kept card with fields that found nothing next to fields that did.
C12_Kept ==
    \E k \in 1..Len(cardLog) :
        /\ cardLog[k].kept # <<>>
        /\ cardLog[k].kept[1].summary = "" /\ cardLog[k].kept[1].source = "Reuters"
        /\ cardLog[k].kept[1].time = "1h" /\ cardLog[k].kept[1].sentiment = "POS"
        /\ cardLog[k].kept[1].tickers = <<"AMZN.US">>
        /\ cardLog[k].kept[1].title = "Fed holds rates"

Crawled == pc \in {"news_crawled", "news_done"}

\* The cards the crawl is to look at: those of the primary selector, all
\* of them when the primary selector matches none.
MatchingCards ==
    IF \E k \in 1..Len(page.cards) : page.cards[k].border
    THEN SelectSeq(page.cards, LAMBDA c : c.border)
    ELSE page.cards

\* The first n of seq (none when n is not positive).
FirstN(seq, n) == SubSeq(seq, 1, IF n < 0 THEN 0 ELSE Min(n, Len(seq)))

ExaminedCards == [k \in 1..Len(cardLog) |-> cardLog[k].card]

RECURSIVE TitledTitles(_)
\* The trimmed titles of the cards that have one, in order.
TitledTitles(cards) ==
    IF cards = <<>> THEN <<>>
    ELSE (IF HasTitle(Head(cards)) THEN <<OrEmpty(TextField(Head(cards).title), "")>>
          ELSE <<>>)
         \o TitledTitles(Tail(cards))

ItemTitles == [k \in 1..Len(news_items) |-> news_items[k].title]

LimitConclusions ==
    /\ ExaminedCards = FirstN(MatchingCards, newsArgs.limit)
    /\ ItemTitles = TitledTitles(ExaminedCards)
    /\ \A k \in 1..Len(news_items) : news_items[k].title # ""
    /\ Len(news_items) <= (IF newsArgs.limit < 0 THEN 0 ELSE newsArgs.limit)

\* C13: for every page and every limit N the crawl examines the first N
\* matching cards at most (those of the fallback selector only when the
\* primary one matched nothing) and returns, in page order, exactly the
\* examined cards with a non-empty trimmed title: every item has a title
\* and there are at most N items.
C13_LimitAndOrder == Crawled => LimitConclusions

\* C13, the part the code keeps: the same for a limit that is not
\* negative and cards none of whose extractions raises.
C13_WhenNothingRaises ==
    (/\ Crawled
     /\ newsArgs.limit >= 0
     /\ \A k \in 1..Len(cardLog) : ~SomeFieldRaises(cardLog[k].card)) => LimitConclusions

\* C13, the bound alone: for a limit that is not negative the examined
\* cards are the first N and at most N items are returned, raising cards
\* or not.
C13_WhenLimitNotNegative ==
    (Crawled /\ newsArgs.limit >= 0) =>
        /\ ExaminedCards = FirstN(MatchingCards, newsArgs.limit)
        /\ Len(news_items) <= newsArgs.limit

\* A crawl cut by the limit, the fallback selector in use.
C13_Cut ==
    /\ Crawled
    /\ newsArgs.limit = 2 /\ Len(page.cards) = 3 /\ Len(cardLog) = 2
    /\ \A k \in 1..Len(page.cards) : ~page.cards[k].border
    /\ Len(news_items) = 2

NoCardMatches == page.loaded /\ page.cards = <<>>
ReportPrinted == pc = "news_done" /\ ~newsArgs.telegram /\ ~newsArgs.markdown

\* C14: when neither selector matches a card the crawl returns the empty
\* list and raises nothing; the report formatter answers the fixed
\* no-news message for the empty list, the same at every time of call;
\* main_async goes on to its end and returns 0.
C14_EmptyCrawl ==
    /\ \A now \in NewsClock : FormatNewsReport(<<>>, now) = <<(<<NoNewsText>>)>>
    /\ NoCardMatches =>
          /\ pc # "news_raised"
          /\ pc # "news_done" => ENABLED NextNews
          /\ Crawled => news_items = <<>> /\ cardLog = <<>>
          /\ pc = "news_done" => exitCode = 0
          /\ ReportPrinted => newsReport = <<(<<NoNewsText>>)>>

\* A run on a page without cards that printed the report.
C14_Witness ==
    /\ NoCardMatches /\ ReportPrinted
    /\ news_items = <<>> /\ newsReport = <<(<<NoNewsText>>)>> /\ exitCode = 0

(***************************************************************************)
(* Claims about --date and about the cache file (SpecMain, SpecIndex)      *)
(***************************************************************************)
\* The history entries of the indices that got a row of numbers.
HasNumbers(e) == e.r # None /\ e.r[3] # 0
ServedByCache(e) == e.r # None /\ (e.symbol = "" \/ e.live = None)

\* C15: with --date D every index row that is not a placeholder comes from
\* a pair whose latest close is dated on or before D, whichever source
\* served it.  (The date of the previous close exists for the live feed
\* only, see C15_LivePairInOrder; a cache entry has one date.)
C15_DateCutoff ==
    args.date # NoDate =>
        \A k \in 1..Len(srcLog) :
            HasNumbers(srcLog[k]) => srcLog[k].r[1] <= args.date

\* C15, the part the code keeps: the pairs the live feed serves.
C15_LiveWithinDate ==
    args.date # NoDate =>
        \A k \in 1..Len(srcLog) :
            (HasNumbers(srcLog[k]) /\ ~ServedByCache(srcLog[k]))
                => srcLog[k].r[1] <= args.date

\* C15, for one call of the live feed: the pair is the close of the latest
\* row on or before the cutoff and the close of an earlier row.
C15_LivePairInOrder ==
    (pc = "ix_done" /\ IxLive # None) =>
        /\ ixIn.as_of # NoDate => IxLive[1] <= ixIn.as_of
        /\ \E i, j \in 1..Len(ixIn.resp.rows) :
              /\ ixIn.resp.rows[j] = <<IxLive[1], IxLive[2]>>
              /\ ixIn.resp.rows[i][1] \in Dates
              /\ ixIn.resp.rows[i][1] < ixIn.resp.rows[j][1]
              /\ ixIn.resp.rows[i][2] = IxLive[3]

\* A run with --date in which the live feed served a pair cut at the date.
C15_LiveCut ==
    /\ pc = "done" /\ args.date # NoDate
    /\ \E k \in 1..Len(srcLog) :
          /\ HasNumbers(srcLog[k]) /\ ~ServedByCache(srcLog[k])
          /\ srcLog[k].r[1] = args.date

\* The cache as main loaded it, and the file after _save_cache.
LoadedCache == LoadCache(disk0)
CacheSaved == pc \in {"markdown", "report", "done"}
ResolvedTickers == {srcLog[k].ticker : k \in {j \in 1..Len(srcLog) : srcLog[j].r # None}}
CacheServed == {k \in 1..Len(srcLog) : ServedByCache(srcLog[k])}

\* C16: a run changes the cache file only for the tickers of the indices
\* it resolved: the entry of a failed index and of a ticker that is no
\* configured index is the value loaded at start, no entry is deleted, an
\* index served from the cache is written back with the close and prev it
\* was read with; a run that does not reach the save leaves the file alone.
C16_CacheFrame ==
    /\ ~CacheSaved => disk = disk0
    /\ CacheSaved =>
          /\ disk.kind = "ok"
          /\ DOMAIN disk.data = DOMAIN LoadedCache \cup ResolvedTickers
          /\ \A t \in DOMAIN LoadedCache \ ResolvedTickers : disk.data[t] = LoadedCache[t]
          /\ \A k \in CacheServed :
                /\ disk.data[srcLog[k].ticker].close = LoadedCache[srcLog[k].ticker].close
                /\ disk.data[srcLog[k].ticker].prev = LoadedCache[srcLog[k].ticker].prev

\* A finished run on a file with an entry of a ticker that is no index, an
\* unreadable entry of an index that failed, and an entry that served an
\* index, next to an index resolved live.
C16_Witness ==
    /\ pc = "done"
    /\ \E t \in DOMAIN LoadedCache : t \notin IndexTickers
    /\ \E k \in 1..Len(srcLog) : srcLog[k].r = None /\ srcLog[k].ticker \in DOMAIN LoadedCache
    /\ CacheServed # {}
    /\ \E k \in 1..Len(srcLog) : LiveResolved(srcLog[k])

====
